---- MODULE Spec2Model ----
(***************************************************************************)
(* A model of urdf-viz's library (src/src/lib.rs): the Viewer's name->node *)
(* map and highlight colours, the package-path resolver, the xacro bridge  *)
(* and the assimp mesh conversion.                                         *)
(***************************************************************************)
EXTENDS Integers, Sequences, FiniteSets, TLC

VARIABLES
    urdf_robot,       \* Viewer.urdf_robot.links: the parsed links, in order
    scenes,           \* Viewer.scenes: HashMap<String, SceneNode>
    original_colors,  \* Viewer.original_colors: HashMap<String, Point3<f32>>
    aborted,          \* the process has panicked
    call,             \* the Viewer method called last, with its arguments
    filename,         \* expand_package_path: the geometry filename
    base_dir,         \* expand_package_path: the directory of the description
    rospack_env,      \* what `rospack find` answers when it is run
    rospack_calls,    \* the packages rospack_find was called with, in order
    path_result,      \* expand_package_path's return value (or a panic)
    input_path,       \* convert_xacro_if_needed_and_get_path: its argument
    xacro_pc,         \* where that call stands
    dirs,             \* the directories that exist, as component sequences
    xacro_events,     \* create_dir_all and rosrun xacro runs, in order
    xacro_exit,       \* how the xacro process ended
    xacro_result,     \* the call's return value (or a panic)
    scene,            \* convert_assimp_scene_to_kiss3d_meshes: the assimp scene
    meshes            \* its return value

viewerVars == <<urdf_robot, scenes, original_colors, aborted, call>>
pathVars == <<filename, base_dir, rospack_env, rospack_calls, path_result>>
xacroVars == <<input_path, xacro_pc, dirs, xacro_events, xacro_exit, xacro_result>>
meshVars == <<scene, meshes>>
vars == <<viewerVars, pathVars, xacroVars, meshVars>>

\* ------------------------------------------------------------------ bounds
MaxLinks == 2      \* links of a robot description
MaxMeshes == 1     \* sub-meshes assimp finds in one mesh file
MaxPairs == 2      \* (transform, link name) pairs of one update()

\* ------------------------------------------------------------- the renderer
LinkNames == {"a", "b", "c"}
AxisNames == {"a"}
Names == {"a", "b"}
Colors == {"red", "green", "blue"}
Transforms == {"t1", "t2"}
Geometries == {"Box", "Cylinder", "Sphere", "Mesh"}

\* A kiss3d scene node: its own drawable object (if any) with that object's
\* colour, the colours of the objects below it, and its local transformation.
NoColor == "none"

\* window.add_cube / add_cylinder / add_sphere: a node with an object of its own.
ObjectNode == [object |-> TRUE, color |-> "white", children |-> <<>>,
               trans |-> "identity"]

\* window.add_group() followed by n add_mesh / add_cylinder calls on the group.
GroupNode(n) == [object |-> FALSE, color |-> NoColor,
                 children |-> [i \in 1..n |-> "white"], trans |-> "identity"]

\* SceneNode::set_color: the node's own object, if any, and every object below.
SetColor(node, c) ==
    [node EXCEPT !.color = IF node.object THEN c ELSE node.color,
                 !.children = [i \in DOMAIN node.children |-> c]]

\* SceneNode::set_local_transformation.
SetLocalTransformation(node, t) == [node EXCEPT !.trans = t]

\* HashMap::insert: a new entry, or the old one replaced.
Insert(map, k, v) == [x \in DOMAIN map \cup {k} |-> IF x = k THEN v ELSE map[x]]

\* ------------------------------------------------------------ add_geometry
\* What the outside world answers for one Mesh link during one setup():
\*   resolve: expand_package_path returns ("ok") or panics ("panic");
\*   exists:  path.exists();  load: load_mesh is Ok ("ok") or Err ("err");
\*   n:       the number of meshes load_mesh returns.
MeshEnv ==
    {[resolve |-> "panic", exists |-> FALSE, load |-> "err", n |-> 0],
     [resolve |-> "ok", exists |-> FALSE, load |-> "err", n |-> 0],
     [resolve |-> "ok", exists |-> TRUE, load |-> "err", n |-> 0]}
    \cup {[resolve |-> "ok", exists |-> TRUE, load |-> "ok", n |-> k] : k \in 0..MaxMeshes}

Pending == [tag |-> "Pending"]
\* A link that is not a Mesh looks at no file.
NoEnv == [resolve |-> "none", exists |-> FALSE, load |-> "none", n |-> 0]

None == [tag |-> "None"]
Panic == [tag |-> "Panic"]
Some(v) == [tag |-> "Some", val |-> v]
Err(kind) == [tag |-> "Err", val |-> kind]

add_geometry(visual, env) ==
    LET geom ==
          IF visual.geometry \in {"Box", "Cylinder", "Sphere"}
          THEN Some(ObjectNode)
          ELSE IF env.resolve = "panic" THEN Panic
          ELSE IF ~env.exists THEN None
          ELSE IF env.load = "ok" THEN Some(GroupNode(env.n))
          ELSE None
    IN IF geom.tag = "Some" THEN Some(SetColor(geom.val, visual.color)) ELSE geom

\* ------------------------------------------------------------------ Viewer
Links == [name : LinkNames, geometry : Geometries, color : {"red"}]

RECURSIVE SeqsUpTo(_, _)
SeqsUpTo(S, n) ==
    IF n = 0 THEN {<<>>}
    ELSE LET shorter == SeqsUpTo(S, n - 1)
         IN shorter \cup {Append(s, x) : s \in {t \in shorter : Len(t) = n - 1}, x \in S}

\* Link names are unique within a description; the descriptions list their
\* links in one order of the names, with the axis name between the others.
NameRank == [n \in LinkNames |-> IF n = "b" THEN 1 ELSE IF n = "a" THEN 2 ELSE 3]
Robots == {r \in SeqsUpTo(Links, MaxLinks) :
             \A i, j \in 1..Len(r) :
                i < j => NameRank[r[i].name] < NameRank[r[j].name]}

\* A setup loop that stops at the first link whose geometry cannot be built.
RECURSIVE SetupFromStopsAtFailure(_, _, _, _)
SetupFromStopsAtFailure(links, envs, i, map) ==
    IF i > Len(links) THEN [scenes |-> map, aborted |-> FALSE]
    ELSE LET g == add_geometry(links[i], envs[i])
         IN IF g.tag = "Panic" THEN [scenes |-> map, aborted |-> TRUE]
            ELSE IF g.tag = "Some"
                 THEN SetupFromStopsAtFailure(links, envs, i + 1,
                                              Insert(map, links[i].name, g.val))
                 ELSE [scenes |-> map, aborted |-> FALSE]

\* The for loop of setup, from link i on: the map after it, and whether a
\* panic ended it.
RECURSIVE SetupFrom(_, _, _, _)
SetupFrom(links, envs, i, map) ==
    IF i > Len(links) THEN [scenes |-> map, aborted |-> FALSE]
    ELSE LET g == add_geometry(links[i], envs[i])
         IN IF g.tag = "Panic" THEN [scenes |-> map, aborted |-> TRUE]
            ELSE IF g.tag = "Some"
                 THEN SetupFrom(links, envs, i + 1, Insert(map, links[i].name, g.val))
                 ELSE SetupFrom(links, envs, i + 1, map)

\* The parts of the state a specification does not exercise.
ViewerIdle ==
    /\ urdf_robot = <<>> /\ scenes = <<>> /\ original_colors = <<>>
    /\ aborted = FALSE /\ call = [op |-> "idle"]
PathIdle ==
    /\ filename = <<>> /\ base_dir = <<>> /\ rospack_env = None
    /\ rospack_calls = <<>> /\ path_result = Pending
XacroIdle ==
    /\ input_path = <<>> /\ xacro_pc = "idle" /\ dirs = {} /\ xacro_events = <<>>
    /\ xacro_exit = "none" /\ xacro_result = Pending
MeshIdle == scene = <<>> /\ meshes = Pending

\* One answer of the outside world per Mesh link.
EnvsFor(links) ==
    {e \in [1..Len(links) -> MeshEnv \cup {NoEnv}] :
       \A i \in 1..Len(links) : (links[i].geometry = "Mesh") <=> (e[i] # NoEnv)}

NoCall == [op |-> "new", name |-> "", color |-> NoColor, pairs |-> <<>>, envs |-> <<>>]

setup ==
    /\ ~aborted
    /\ \E envs \in EnvsFor(urdf_robot) :
         LET r == SetupFrom(urdf_robot, envs, 1, scenes)
         IN /\ scenes' = r.scenes
            /\ aborted' = r.aborted
            /\ call' = [NoCall EXCEPT !.op = "setup", !.envs = envs]
    /\ UNCHANGED <<urdf_robot, original_colors, pathVars, xacroVars, meshVars>>

\* The axis group: three cylinders coloured blue, green and red.
AxisGroup == [GroupNode(3) EXCEPT !.children = <<"blue", "green", "red">>]

add_axis_cylinders(name) ==
    /\ ~aborted
    /\ scenes' = Insert(scenes, name, AxisGroup)
    /\ call' = [NoCall EXCEPT !.op = "add_axis_cylinders", !.name = name]
    /\ UNCHANGED <<urdf_robot, original_colors, aborted, pathVars, xacroVars, meshVars>>

\* An update loop that returns at the first name it does not find.
RECURSIVE UpdateFromStopsAtUnknown(_, _, _)
UpdateFromStopsAtUnknown(pairs, i, map) ==
    IF i > Len(pairs) THEN map
    ELSE LET p == pairs[i]
         IN IF p.name \in DOMAIN map
            THEN UpdateFromStopsAtUnknown(pairs, i + 1,
                   [map EXCEPT ![p.name] = SetLocalTransformation(@, p.trans)])
            ELSE map

\* The for loop of update over the zipped (transform, link name) pairs.
RECURSIVE UpdateFrom(_, _, _)
UpdateFrom(pairs, i, map) ==
    IF i > Len(pairs) THEN map
    ELSE LET p == pairs[i]
         IN IF p.name \in DOMAIN map
            THEN UpdateFrom(pairs, i + 1,
                            [map EXCEPT ![p.name] = SetLocalTransformation(@, p.trans)])
            ELSE UpdateFrom(pairs, i + 1, map)

Pairs == [trans : Transforms, name : Names]

update(pairs) ==
    /\ ~aborted
    /\ scenes' = UpdateFrom(pairs, 1, scenes)
    /\ call' = [NoCall EXCEPT !.op = "update", !.pairs = pairs]
    /\ UNCHANGED <<urdf_robot, original_colors, aborted, pathVars, xacroVars, meshVars>>

\* A set_temporal_color that records an entry whatever it finds.
SetTemporalColorRecordsAlways(map, orig, link_name, c) ==
    [scenes |-> IF link_name \in DOMAIN map
                THEN [map EXCEPT ![link_name] = SetColor(@, c)] ELSE map,
     original_colors |->
        Insert(orig, link_name,
               IF link_name \in DOMAIN map /\ map[link_name].object
               THEN map[link_name].color ELSE "white")]

\* set_temporal_color: the closure's result (the object's colour, if the node
\* has an object) and the maps after the call.
SetTemporalColor(map, orig, link_name, c) ==
    LET color_opt == IF link_name \in DOMAIN map
                     THEN IF map[link_name].object
                          THEN Some(map[link_name].color) ELSE None
                     ELSE None
    IN [scenes |-> IF link_name \in DOMAIN map
                   THEN [map EXCEPT ![link_name] = SetColor(@, c)] ELSE map,
        original_colors |-> IF color_opt.tag = "Some"
                            THEN Insert(orig, link_name, color_opt.val) ELSE orig]

set_temporal_color(link_name, c) ==
    /\ ~aborted
    /\ LET r == SetTemporalColor(scenes, original_colors, link_name, c)
       IN /\ scenes' = r.scenes
          /\ original_colors' = r.original_colors
    /\ call' = [NoCall EXCEPT !.op = "set_temporal_color", !.name = link_name,
                              !.color = c]
    /\ UNCHANGED <<urdf_robot, aborted, pathVars, xacroVars, meshVars>>

\* A reset_temporal_color that falls back to the default colour.
ResetTemporalColorToDefault(map, orig, link_name) ==
    IF link_name \in DOMAIN map
    THEN [map EXCEPT ![link_name] =
            SetColor(@, IF link_name \in DOMAIN orig THEN orig[link_name] ELSE "white")]
    ELSE map

\* reset_temporal_color: the map after the call.
ResetTemporalColor(map, orig, link_name) ==
    IF link_name \in DOMAIN orig /\ link_name \in DOMAIN map
    THEN [map EXCEPT ![link_name] = SetColor(@, orig[link_name])]
    ELSE map

reset_temporal_color(link_name) ==
    /\ ~aborted
    /\ scenes' = ResetTemporalColor(scenes, original_colors, link_name)
    /\ call' = [NoCall EXCEPT !.op = "reset_temporal_color", !.name = link_name]
    /\ UNCHANGED <<urdf_robot, original_colors, aborted, pathVars, xacroVars, meshVars>>

\* The robot descriptions of the highlight and update specifications: a
\* primitive link and a mesh link, in both orders, and a lone mesh link.
LinkA == [name |-> "a", geometry |-> "Box", color |-> "red"]
LinkB == [name |-> "b", geometry |-> "Mesh", color |-> "green"]
ViewerRobots == {<<LinkA, LinkB>>, <<LinkB, LinkA>>,
                 <<[LinkA EXCEPT !.geometry = "Mesh"]>>}

Init ==
    /\ urdf_robot \in ViewerRobots
    /\ scenes = <<>>
    /\ original_colors = <<>>
    /\ aborted = FALSE
    /\ call = NoCall
    /\ PathIdle /\ XacroIdle /\ MeshIdle

AddAxis == \E name \in AxisNames : add_axis_cylinders(name)
SetTemporal == \E n \in Names, c \in Colors : set_temporal_color(n, c)
ResetTemporal == \E n \in Names : reset_temporal_color(n)
\* update() with at most one pair, of one transform.
UpdateOne == \E pairs \in SeqsUpTo([trans : {"t1"}, name : Names], 1) : update(pairs)

Next == setup \/ AddAxis \/ UpdateOne \/ SetTemporal \/ ResetTemporal

Spec == Init /\ [][Next]_vars

\* The update specification: every sequence of pairs up to MaxPairs, one
\* highlight colour.
Update == \E pairs \in SeqsUpTo(Pairs, MaxPairs) : update(pairs)
SetBlue == \E n \in Names : set_temporal_color(n, "blue")

NextUpdate == setup \/ AddAxis \/ Update \/ SetBlue

InitUpdate ==
    /\ urdf_robot \in {<<LinkA, LinkB>>}
    /\ scenes = <<>>
    /\ original_colors = <<>>
    /\ aborted = FALSE
    /\ call = NoCall
    /\ PathIdle /\ XacroIdle /\ MeshIdle

SpecUpdate == InitUpdate /\ [][NextUpdate]_vars

\* The setup specification: every robot description up to MaxLinks links.
InitSetup ==
    /\ urdf_robot \in Robots
    /\ scenes = <<>>
    /\ original_colors = <<>>
    /\ aborted = FALSE
    /\ call = NoCall
    /\ PathIdle /\ XacroIdle /\ MeshIdle

NextSetup == setup \/ AddAxis

SpecSetup == InitSetup /\ [][NextSetup]_vars

\* ------------------------------------------------------------ Viewer claims
\* C1: a set_temporal_color(n, ..) on a name that already has an entry in
\* original_colors leaves that entry as it is (the first call wins), so that
\* set, set, reset restores the colour held before the first set.
C1_FirstSetWins ==
    [][(call'.op = "set_temporal_color" /\ call'.name \in DOMAIN original_colors)
          => original_colors' = original_colors]_vars

Max(S) == CHOOSE x \in S : \A y \in S : y <= x

\* The effect of one pair of update() on the map before it.
PairApplied(before, after, p) ==
    IF p.name \in DOMAIN before
    THEN /\ DOMAIN after = DOMAIN before
         /\ after[p.name].trans = p.trans
         /\ \A n \in DOMAIN before \ {p.name} : after[n] = before[n]
    ELSE after = before

\* C2: update() never aborts; each pair naming a key of scenes sets that node's
\* local transformation to the pair's transform (the last such pair is the one
\* left standing), a pair naming no key changes nothing, and the keys, the
\* colours and original_colors are as before.
C2_UpdateAppliesAndSkips ==
    [][call'.op = "update" =>
         LET pairs == call'.pairs IN
         /\ ~aborted'
         /\ original_colors' = original_colors
         /\ DOMAIN scenes' = DOMAIN scenes
         /\ \A n \in DOMAIN scenes :
              LET idx == {i \in 1..Len(pairs) : pairs[i].name = n} IN
              /\ scenes'[n].object = scenes[n].object
              /\ scenes'[n].color = scenes[n].color
              /\ scenes'[n].children = scenes[n].children
              /\ scenes'[n].trans = IF idx = {} THEN scenes[n].trans
                                    ELSE pairs[Max(idx)].trans
         /\ \A i \in 1..Len(pairs) :
              PairApplied(UpdateFrom(SubSeq(pairs, 1, i - 1), 1, scenes),
                          UpdateFrom(SubSeq(pairs, 1, i), 1, scenes), pairs[i])
      ]_vars

\* C2's case: an absent name first, then a present one whose transform was
\* applied, with a highlight recorded.
C2_Witness ==
    /\ call.op = "update"
    /\ Len(call.pairs) = 2
    /\ call.pairs[1].name \notin DOMAIN scenes
    /\ call.pairs[2].name \in DOMAIN scenes
    /\ scenes[call.pairs[2].name].trans = call.pairs[2].trans
    /\ original_colors # <<>>

\* Whether link i's geometry build succeeds, fails (missing file or import
\* failure), or panics in expand_package_path.
Built(links, envs, i) ==
    links[i].geometry # "Mesh"
    \/ (envs[i].resolve = "ok" /\ envs[i].exists /\ envs[i].load = "ok")
Panics(links, envs, i) == links[i].geometry = "Mesh" /\ envs[i].resolve = "panic"

\* C3: a setup() in which no link panics adds an entry for exactly the links
\* whose build succeeded, wherever the failed ones stand: a fresh node of the
\* link's colour; a failed link gets no entry and no other entry changes.
C3_SetupRegistersBuiltLinks ==
    [][(call'.op = "setup"
          /\ \A i \in 1..Len(urdf_robot) : ~Panics(urdf_robot, call'.envs, i)) =>
         LET envs == call'.envs
             built == {i \in 1..Len(urdf_robot) : Built(urdf_robot, envs, i)}
             names == {urdf_robot[i].name : i \in built}
         IN /\ ~aborted'
            /\ original_colors' = original_colors
            /\ DOMAIN scenes' = DOMAIN scenes \cup names
            /\ (scenes = <<>> => \A i \in (1..Len(urdf_robot)) \ built :
                                    urdf_robot[i].name \notin DOMAIN scenes')
            /\ \A n \in DOMAIN scenes \ names : scenes'[n] = scenes[n]
            /\ \A i \in built :
                 LET node == scenes'[urdf_robot[i].name] IN
                 /\ node.trans = "identity"
                 /\ node.object = (urdf_robot[i].geometry # "Mesh")
                 /\ node.object => node.color = urdf_robot[i].color
                 /\ ~node.object => Len(node.children) = envs[i].n
                 /\ \A k \in DOMAIN node.children :
                      node.children[k] = urdf_robot[i].color
      ]_vars

\* C3's case: the first link's mesh failed, the second link is registered.
C3_Witness ==
    /\ call.op = "setup"
    /\ ~aborted
    /\ Len(urdf_robot) = 2
    /\ ~Built(urdf_robot, call.envs, 1)
    /\ ~Panics(urdf_robot, call.envs, 1)
    /\ urdf_robot[1].name \notin DOMAIN scenes
    /\ urdf_robot[2].name \in DOMAIN scenes

\* C4: reset_temporal_color(n) never touches original_colors or the keys of
\* scenes and never aborts; with no entry for n it changes no node; and a
\* second reset of n changes nothing more.
C4_ResetNoOp ==
    [][call'.op = "reset_temporal_color" =>
         LET n == call'.name IN
         /\ ~aborted'
         /\ original_colors' = original_colors
         /\ DOMAIN scenes' = DOMAIN scenes
         /\ (n \notin DOMAIN original_colors => scenes' = scenes)
         /\ ResetTemporalColor(scenes', original_colors', n) = scenes'
      ]_vars

\* C4's case: a reset of a highlighted group node, which has no entry.
C4_Witness ==
    /\ call.op = "reset_temporal_color"
    /\ call.name \in DOMAIN scenes
    /\ call.name \notin DOMAIN original_colors
    /\ Len(scenes[call.name].children) > 0
    /\ \A k \in DOMAIN scenes[call.name].children :
         scenes[call.name].children[k] = "blue"

\* What set_temporal_color(n, c) does, by the kind of n's node.
SetWritesOnlyForObjects ==
    call'.op = "set_temporal_color" =>
      LET n == call'.name
          c == call'.color
      IN /\ (original_colors' # original_colors =>
               n \in DOMAIN scenes /\ scenes[n].object)
         /\ (n \notin DOMAIN scenes =>
               scenes' = scenes /\ original_colors' = original_colors)
         /\ ((n \in DOMAIN scenes /\ ~scenes[n].object) =>
               /\ original_colors' = original_colors
               /\ \A k \in DOMAIN scenes'[n].children : scenes'[n].children[k] = c)

\* A reset_temporal_color(n) right after set_temporal_color(n, ..) on a group.
ResetAfterSetOnGroup ==
    /\ call.op = "set_temporal_color"
    /\ call'.op = "reset_temporal_color"
    /\ call'.name = call.name
    /\ call.name \in DOMAIN scenes
    /\ ~scenes[call.name].object

KeysAreScenes == DOMAIN original_colors \subseteq DOMAIN scenes

\* C10 as stated: set_temporal_color records an entry only for a name in
\* scenes whose node has an object of its own, changes nothing for an absent
\* name, colours a group without recording, and a reset of that group right
\* after leaves the highlight in place; the keys of original_colors are keys
\* of scenes.
C10_AsStated ==
    [][/\ KeysAreScenes'
       /\ SetWritesOnlyForObjects
       /\ (ResetAfterSetOnGroup => scenes' = scenes)]_vars

\* C10 amended: the reset of the group leaves the highlight in place when
\* original_colors holds no entry for the name (an entry recorded while the
\* name still mapped to a node with an object outlives add_axis_cylinders).
C10_SetRecordsOnlyObjects ==
    [][/\ KeysAreScenes'
       /\ SetWritesOnlyForObjects
       /\ ((ResetAfterSetOnGroup /\ call.name \notin DOMAIN original_colors)
             => scenes' = scenes)]_vars

\* C10's case: a group node carries the highlight and no entry was recorded.
C10_Witness ==
    /\ call.op = "set_temporal_color"
    /\ call.name \in DOMAIN scenes
    /\ ~scenes[call.name].object
    /\ Len(scenes[call.name].children) = 3
    /\ \A k \in DOMAIN scenes[call.name].children :
         scenes[call.name].children[k] = call.color
    /\ call.name \notin DOMAIN original_colors

\* -------------------------------------------------------- the path resolver
\* Strings are sequences of one-character strings.
MaxPkgLen == 2     \* characters of a package identifier

StartsWith(s, p) == Len(s) >= Len(p) /\ SubSeq(s, 1, Len(p)) = p
Drop(s, n) == SubSeq(s, n + 1, Len(s))

PackageScheme == <<"p", "a", "c", "k", "a", "g", "e", ":", "/", "/">>

\* The characters the regex class \w matches (ASCII).
WordChars ==
    {"a", "b", "c", "d", "e", "f", "g", "h", "i", "j", "k", "l", "m", "n",
    "o", "p", "q", "r", "s", "t", "u", "v", "w", "x", "y", "z", "A", "B",
    "C", "D", "E", "F", "G", "H", "I", "J", "K", "L", "M", "N", "O", "P",
    "Q", "R", "S", "T", "U", "V", "W", "X", "Y", "Z", "0", "1", "2", "3",
    "4", "5", "6", "7", "8", "9", "_"}
Whitespace == {" ", "\n", "\t"}

\* str::trim: the whitespace at both ends removed.
RECURSIVE TrimStart(_)
TrimStart(s) == IF s # <<>> /\ Head(s) \in Whitespace THEN TrimStart(Tail(s)) ELSE s
RECURSIVE TrimEnd(_)
TrimEnd(s) ==
    IF s # <<>> /\ s[Len(s)] \in Whitespace THEN TrimEnd(SubSeq(s, 1, Len(s) - 1)) ELSE s
Trim(s) == TrimEnd(TrimStart(s))

\* What running `rospack find <package>` can come to: the process cannot be
\* started, it exits non-zero, its output is not UTF-8, or it prints the
\* package's directory and a newline.
RospackDirs == {<<"/", "o", "p", "t", "/", "m">>, <<"/", "o">>}
RospackEnv ==
    {[spawn |-> FALSE, success |-> FALSE, utf8 |-> FALSE, dir |-> <<>>],
     [spawn |-> TRUE, success |-> FALSE, utf8 |-> FALSE, dir |-> <<>>],
     [spawn |-> TRUE, success |-> TRUE, utf8 |-> FALSE, dir |-> <<>>]}
    \cup {[spawn |-> TRUE, success |-> TRUE, utf8 |-> TRUE, dir |-> d] : d \in RospackDirs}
Stdout(env) == env.dir \o <<"\n">>

\* A rospack_find that keeps the output's newline.
rospack_find_untrimmed(package, env) ==
    IF ~env.spawn THEN Panic
    ELSE IF env.success
         THEN IF env.utf8 THEN Some(Stdout(env)) ELSE None
         ELSE None

rospack_find(package, env) ==
    IF ~env.spawn THEN Panic
    ELSE IF env.success
         THEN IF env.utf8 THEN Some(Trim(Stdout(env))) ELSE None
         ELSE None

\* The length of the longest run of \w characters at the head of s.
RECURSIVE WordRun(_)
WordRun(s) == IF s # <<>> /\ Head(s) \in WordChars THEN 1 + WordRun(Tail(s)) ELSE 0

\* Regex "^package://(\w+)/" on filename: whether it matches, the text of
\* group 1 and the text after the match.
RegexMatch(name) ==
    LET after == Drop(name, Len(PackageScheme))
        k == WordRun(after)
    IN IF StartsWith(name, PackageScheme) /\ k >= 1 /\ Len(after) > k /\ after[k + 1] = "/"
       THEN [matched |-> TRUE, group1 |-> SubSeq(after, 1, k), rest |-> Drop(after, k + 1)]
       ELSE [matched |-> FALSE, group1 |-> <<>>, rest |-> <<>>]

\* PathBuf::push: an absolute path replaces the buffer; otherwise a separator
\* is added unless the buffer is empty or ends with one.
PathPush(buf, path) ==
    IF path # <<>> /\ Head(path) = "/" THEN path
    ELSE IF buf # <<>> /\ buf[Len(buf)] # "/" THEN buf \o <<"/">> \o path
    ELSE buf \o path

\* An expand_package_path that glues the filename to the base directory.
ExpandPackagePathGlued(name, base, env) ==
    IF StartsWith(name, PackageScheme)
    THEN LET m == RegexMatch(name) IN
         IF m.matched
         THEN LET found == rospack_find(m.group1, env) IN
              [result |-> IF found.tag = "Some"
                          THEN Some(found.val \o <<"/">> \o m.rest)
                          ELSE Panic,
               calls |-> <<m.group1>>]
         ELSE [result |-> Some(name), calls |-> <<>>]
    ELSE [result |-> Some(base \o name), calls |-> <<>>]

\* expand_package_path: the value returned (or a panic) and the rospack_find
\* calls made on the way.
ExpandPackagePath(name, base, env) ==
    IF StartsWith(name, PackageScheme)
    THEN LET m == RegexMatch(name) IN
         IF m.matched
         THEN LET found == rospack_find(m.group1, env) IN
              [result |-> IF found.tag = "Some"
                          THEN Some(found.val \o <<"/">> \o m.rest)
                          ELSE Panic,
               calls |-> <<m.group1>>]
         ELSE [result |-> Some(name), calls |-> <<>>]
    ELSE [result |-> Some(PathPush(base, name)), calls |-> <<>>]

expand_package_path ==
    /\ path_result = Pending
    /\ LET r == ExpandPackagePath(filename, base_dir, rospack_env)
       IN /\ path_result' = r.result
          /\ rospack_calls' = r.calls
    /\ UNCHANGED <<filename, base_dir, rospack_env, viewerVars, xacroVars, meshVars>>

\* The filenames: a head, a package identifier and a remainder.
PkgChars == {"m", "_", "-"}
FileHeads == {<<>>, PackageScheme, <<"p", "a", "c", "k", "a", "g", "e", ":", "/">>, <<"/">>}
FileRests == {<<>>, <<"/">>, <<"/", "a", ".", "o">>, <<"/", "m", "/", "a", ".", "o">>, <<"m", "e", "s", "h", "/", "a", "a", "a", ".", "o", "b", "j">>}
Filenames == {h \o p \o r : h \in FileHeads, p \in SeqsUpTo(PkgChars, MaxPkgLen),
                            r \in FileRests}
BaseDirs == {<<>>, <<"/", "h", "o", "m", "e", "/", "u", "s", "e", "r">>, <<"/", "h", "o", "m", "e", "/", "u", "s", "e", "r", "/">>, <<"r", "e", "l">>}

InitPath ==
    /\ filename \in Filenames
    /\ base_dir \in BaseDirs
    /\ rospack_env \in RospackEnv
    /\ rospack_calls = <<>>
    /\ path_result = Pending
    /\ ViewerIdle /\ XacroIdle /\ MeshIdle

NextPath == expand_package_path

SpecPath == InitPath /\ [][NextPath]_vars

\* ----------------------------------------------------- path resolver claims
\* C5: for a filename that does not start with "package://", the result is
\* base_dir joined with the filename (an absolute filename as it is, otherwise
\* base_dir, one separator unless base_dir is empty or ends with one, and the
\* filename), and rospack_find is never called.
C5_RelativeJoinsBase ==
    (path_result # Pending /\ ~StartsWith(filename, PackageScheme)) =>
      /\ rospack_calls = <<>>
      /\ path_result.tag = "Some"
      /\ path_result.val =
           IF filename # <<>> /\ filename[1] = "/" THEN filename
           ELSE IF base_dir = <<>> \/ base_dir[Len(base_dir)] = "/"
                THEN base_dir \o filename
                ELSE base_dir \o <<"/">> \o filename

\* C5's case: the repository's test, /home/user and mesh/aaa.obj.
C5_Witness ==
    /\ base_dir = <<"/", "h", "o", "m", "e", "/", "u", "s", "e", "r">>
    /\ filename = <<"m", "e", "s", "h", "/", "a", "a", "a", ".", "o", "b", "j">>
    /\ path_result = Some(<<"/", "h", "o", "m", "e", "/", "u", "s", "e", "r", "/", "m", "e", "s", "h", "/", "a", "a", "a", ".", "o", "b", "j">>)
    /\ rospack_calls = <<>>

\* filename is package://<pkg>/<rest> with <pkg> in pkgs, and rospack answers
\* with a directory: the result is that directory, a separator and <rest>.
PackageFormResolves(pkgs) ==
    \A pkg \in pkgs, rest \in FileRests \cup {Drop(r, 1) : r \in FileRests \ {<<>>}} :
      (/\ path_result # Pending
       /\ filename = PackageScheme \o pkg \o <<"/">> \o rest
       /\ rospack_env.spawn /\ rospack_env.success /\ rospack_env.utf8) =>
        path_result = Some(rospack_env.dir \o <<"/">> \o rest)

\* Package identifiers: they start with a letter.
PkgIdentifiers == {p \in SeqsUpTo(PkgChars, MaxPkgLen) : p # <<>> /\ p[1] = "m"}

MaxStemLen == 2    \* characters of a file stem

get_cache_dir == <<"/", "t", "m", "p", "/", "u", "r", "d", "f", "_", "v", "i", "z", "/">>
Xacro == <<"x", "a", "c", "r", "o">>
Urdf == <<"u", "r", "d", "f">>

\* The segments of a path between its separators, empty ones included.
RECURSIVE SplitFrom(_, _, _)
SplitFrom(p, i, cur) ==
    IF i > Len(p) THEN <<cur>>
    ELSE IF p[i] = "/" THEN <<cur>> \o SplitFrom(p, i + 1, <<>>)
    ELSE SplitFrom(p, i + 1, Append(cur, p[i]))

\* Path::components, without the root: empty segments and "." are skipped.
Components(p) ==
    LET segs == SplitFrom(p, 1, <<>>) IN
    SelectSeq(segs, LAMBDA x : x # <<>> /\ x # <<".">>)

\* The path with its trailing separators and trailing "." segments cut off:
\* it ends where its last component ends.
RECURSIVE TrimTail(_)
TrimTail(p) ==
    IF p = <<>> THEN p
    ELSE IF p[Len(p)] = "/" THEN TrimTail(SubSeq(p, 1, Len(p) - 1))
    ELSE IF Len(p) >= 2 /\ p[Len(p)] = "." /\ p[Len(p) - 1] = "/"
         THEN TrimTail(SubSeq(p, 1, Len(p) - 2))
    ELSE p

\* Path::file_name: the last component, unless there is none or it is "..".
FileName(p) ==
    LET c == Components(p) IN
    IF c = <<>> \/ TrimTail(p) = <<".">> THEN None
    ELSE IF c[Len(c)] = <<".", ".">> THEN None
    ELSE Some(c[Len(c)])

\* The place of the last "." of a name, 0 when it has none.
LastDot(name) ==
    LET dots == {i \in 1..Len(name) : name[i] = "."} IN
    IF dots = {} THEN 0 ELSE CHOOSE i \in dots : \A j \in dots : j <= i

\* Path::extension: what follows the last "." of the file name, when
\* something precedes that ".".
Extension(p) ==
    LET f == FileName(p) IN
    IF f.tag = "None" THEN None
    ELSE IF LastDot(f.val) <= 1 THEN None
    ELSE Some(Drop(f.val, LastDot(f.val)))

\* Path::file_stem.
FileStem(p) ==
    LET f == FileName(p) IN
    IF f.tag = "None" THEN None
    ELSE IF LastDot(f.val) <= 1 THEN f
    ELSE Some(SubSeq(f.val, 1, LastDot(f.val) - 1))

\* Path::with_extension: the buffer cut right after the file stem, then "."
\* and the new extension; a path with no file name is left as it is.
WithExtension(p, ext) ==
    LET stem == FileStem(p)
        f == FileName(p)
    IN IF stem.tag = "None" THEN p
       ELSE SubSeq(p, 1, Len(TrimTail(p)) - (Len(f.val) - Len(stem.val)))
              \o <<".">> \o ext

\* Path::parent: the path up to the end of its last but one component.
Parent(p) ==
    LET t == TrimTail(p)
        c == Components(p)
        cut == IF c = <<>> THEN <<>> ELSE SubSeq(t, 1, Len(t) - Len(c[Len(c)]))
    IN IF TrimTail(cut) = <<>> /\ cut # <<>> /\ cut[1] = "/" THEN <<"/">>
       ELSE TrimTail(cut)

\* The directories create_dir_all makes sure exist: the path and its ancestors.
Ancestors(p) == {SubSeq(Components(p), 1, k) : k \in 0..Len(Components(p))}
IsDir(p) == Components(p) \in dirs

\* The temporary .urdf path of lines 310-312.
AbsUrdfPath(p) == get_cache_dir \o WithExtension(p, Urdf)

\* An entry that sends every extension but urdf through the conversion.
convert_unless_urdf ==
    /\ xacro_pc = "start"
    /\ LET ext == Extension(input_path) IN
       IF ext.tag = "Some"
       THEN IF ext.val # Urdf
            THEN xacro_pc' = "create_parent_dir" /\ xacro_result' = xacro_result
            ELSE xacro_pc' = "done" /\ xacro_result' = Some(input_path)
       ELSE xacro_pc' = "done" /\ xacro_result' = Err("failed to get extension")
    /\ UNCHANGED <<input_path, dirs, xacro_events, xacro_exit, viewerVars, pathVars,
                   meshVars>>

\* convert_xacro_if_needed_and_get_path up to its call of
\* convert_xacro_to_urdf.
convert_xacro_if_needed_and_get_path ==
    /\ xacro_pc = "start"
    /\ LET ext == Extension(input_path) IN
       IF ext.tag = "Some"
       THEN IF ext.val = Xacro
            THEN xacro_pc' = "create_parent_dir" /\ xacro_result' = xacro_result
            ELSE xacro_pc' = "done" /\ xacro_result' = Some(input_path)
       ELSE xacro_pc' = "done" /\ xacro_result' = Err("failed to get extension")
    /\ UNCHANGED <<input_path, dirs, xacro_events, xacro_exit, viewerVars, pathVars,
                   meshVars>>

\* A create_parent_dir whose create_dir_all error is dropped.
create_parent_dir_unchecked ==
    /\ xacro_pc = "create_parent_dir"
    /\ LET new_parent_dir == Parent(AbsUrdfPath(input_path)) IN
       IF ~IsDir(new_parent_dir)
       THEN /\ xacro_events' = Append(xacro_events, "create_dir_all")
            /\ \E ok \in BOOLEAN :
                 dirs' = IF ok THEN dirs \cup Ancestors(new_parent_dir) ELSE dirs
       ELSE UNCHANGED <<dirs, xacro_events>>
    /\ xacro_pc' = "rosrun"
    /\ UNCHANGED <<input_path, xacro_exit, xacro_result, viewerVars, pathVars, meshVars>>

\* create_parent_dir(new_path), called first by convert_xacro_to_urdf; an
\* error of create_dir_all is returned through both `?`.
create_parent_dir ==
    /\ xacro_pc = "create_parent_dir"
    /\ LET new_parent_dir == Parent(AbsUrdfPath(input_path)) IN
       IF ~IsDir(new_parent_dir)
       THEN /\ xacro_events' = Append(xacro_events, "create_dir_all")
            /\ \E ok \in BOOLEAN :
                 IF ok
                 THEN /\ dirs' = dirs \cup Ancestors(new_parent_dir)
                      /\ xacro_pc' = "rosrun"
                      /\ xacro_result' = xacro_result
                 ELSE /\ dirs' = dirs
                      /\ xacro_pc' = "done"
                      /\ xacro_result' = Err("create_dir_all")
       ELSE /\ xacro_pc' = "rosrun"
            /\ UNCHANGED <<dirs, xacro_events, xacro_result>>
    /\ UNCHANGED <<input_path, xacro_exit, viewerVars, pathVars, meshVars>>

\* The rest of convert_xacro_to_urdf: rosrun xacro runs (or cannot be
\* started, which panics), and its exit status decides the result.
convert_xacro_to_urdf ==
    /\ xacro_pc = "rosrun"
    /\ xacro_events' = Append(xacro_events, "rosrun xacro")
    /\ \E status \in {"spawn_failed", "exit_0", "exit_1"} :
         /\ xacro_exit' = status
         /\ xacro_result' = IF status = "spawn_failed" THEN Panic
                            ELSE IF status = "exit_0"
                                 THEN Some(AbsUrdfPath(input_path))
                                 ELSE Err("faild to xacro")
    /\ xacro_pc' = "done"
    /\ UNCHANGED <<input_path, dirs, viewerVars, pathVars, meshVars>>

\* The input paths: a directory, a stem, an extension and a tail.
InputDirs == {<<>>, <<"/", "h", "/">>, <<"d", ".", "x", "/">>}
InputExts == {<<>>, <<".", "x", "a", "c", "r", "o">>, <<".", "u", "r", "d", "f">>, <<".">>, <<".", "x", "a", "c", "r">>}
InputTails == {<<>>, <<"/">>}
InputPaths == {d \o st \o e \o t : d \in InputDirs, st \in SeqsUpTo({"r", "."}, MaxStemLen),
                                   e \in InputExts, t \in InputTails}

\* The file system before the call: the root alone, the cache directory, or
\* the parent directory of every target already there.
CachedDirs == UNION {Ancestors(Parent(AbsUrdfPath(p))) : p \in InputPaths}

InitXacro ==
    /\ input_path \in InputPaths
    /\ xacro_pc = "start"
    /\ dirs \in {{<<>>}, Ancestors(get_cache_dir), CachedDirs}
    /\ xacro_events = <<>>
    /\ xacro_exit = "none"
    /\ xacro_result = Pending
    /\ ViewerIdle /\ PathIdle /\ MeshIdle

NextXacro ==
    convert_xacro_if_needed_and_get_path \/ create_parent_dir \/ convert_xacro_to_urdf

SpecXacro == InitXacro /\ [][NextXacro]_vars

\* ------------------------------------------------------ xacro bridge claims
EndsWith(s, e) == Len(s) >= Len(e) /\ SubSeq(s, Len(s) - Len(e) + 1, Len(s)) = e
DotXacro == <<".">> \o Xacro

\* The cache directory followed by the input path (its trailing separators
\* aside) with the final ".xacro" replaced by ".urdf".
CacheTarget(p) ==
    get_cache_dir \o SubSeq(TrimTail(p), 1, Len(TrimTail(p)) - Len(DotXacro))
                  \o <<".">> \o Urdf

C8_AsStated ==
    (xacro_pc = "done" /\ Extension(input_path) # Some(Xacro)) =>
      xacro_result = Some(input_path) /\ xacro_events = <<>>

\* C8 amended: an input with an extension other than xacro is returned as it
\* is; an input with no extension gives the error "failed to get extension";
\* in both cases no tool is run and no directory is created.
C8_OtherExtensionPassesThrough ==
    (xacro_pc = "done" /\ Extension(input_path) # Some(Xacro)) =>
      /\ xacro_events = <<>>
      /\ xacro_exit = "none"
      /\ dirs \in {{<<>>}, Ancestors(get_cache_dir), CachedDirs}
      /\ IF Extension(input_path) = None
         THEN xacro_result = Err("failed to get extension")
         ELSE xacro_result = Some(input_path)

\* C8's case: /h/r.urdf comes back as it is.
C8_Witness ==
    /\ input_path = <<"/", "h", "/", "r", ".", "u", "r", "d", "f">>
    /\ xacro_pc = "done"
    /\ xacro_result = Some(input_path)
    /\ xacro_events = <<>>

\* ----------------------------------------------------------- the mesh loader
MaxSubMeshes == 2  \* sub-meshes of an assimp scene
MaxFaces == 3      \* faces of a scene, over all its sub-meshes

Point3(a, b, c) == <<a, b, c>>

\* A conversion that keeps the first three indices of every larger face too.
ConvertMeshAtLeastThree(mesh) ==
    LET vertices == [k \in DOMAIN mesh.vertices |->
                       Point3(mesh.vertices[k].x, mesh.vertices[k].y, mesh.vertices[k].z)]
        kept == SelectSeq(mesh.faces, LAMBDA f : Len(f) >= 3)
        indices == [k \in DOMAIN kept |-> Point3(kept[k][1], kept[k][2], kept[k][3])]
    IN [coords |-> vertices, faces |-> indices]

\* The closure mapped over the assimp meshes, for one mesh: every vertex becomes a
\* point, a face becomes an index triple when it has three indices.
ConvertMesh(mesh) ==
    LET vertices == [k \in DOMAIN mesh.vertices |->
                       Point3(mesh.vertices[k].x, mesh.vertices[k].y, mesh.vertices[k].z)]
        kept == SelectSeq(mesh.faces, LAMBDA f : Len(f) = 3)
        indices == [k \in DOMAIN kept |-> Point3(kept[k][1], kept[k][2], kept[k][3])]
    IN [coords |-> vertices, faces |-> indices]

convert_assimp_scene_to_kiss3d_meshes ==
    /\ meshes = Pending
    /\ meshes' = Some([i \in DOMAIN scene |-> ConvertMesh(scene[i])])
    /\ UNCHANGED <<scene, viewerVars, pathVars, xacroVars>>

\* The assimp scenes: faces of two, three and four indices.
Vertex(n) == [x |-> n, y |-> n + 1, z |-> 0]
VertexLists == {<<>>, <<Vertex(0), Vertex(1), Vertex(2), Vertex(3)>>}
Faces == {<<0, 1>>, <<0, 1, 2>>, <<2, 1, 0>>, <<0, 1, 2, 3>>}
\* A face indexes the vertices of its mesh: a mesh with faces has vertices.
SubMeshes(budget) ==
    {m \in [vertices : VertexLists, faces : SeqsUpTo(Faces, budget)] :
       m.faces # <<>> => m.vertices # <<>>}

RECURSIVE Scenes(_, _)
Scenes(n, budget) ==
    IF n = 0 THEN {<<>>}
    ELSE {<<>>} \cup UNION {{<<m>> \o s : s \in Scenes(n - 1, budget - Len(m.faces))} :
                             m \in SubMeshes(budget)}

InitMesh ==
    /\ scene \in Scenes(MaxSubMeshes, MaxFaces)
    /\ meshes = Pending
    /\ ViewerIdle /\ PathIdle /\ XacroIdle

NextMesh == convert_assimp_scene_to_kiss3d_meshes

SpecMesh == InitMesh /\ [][NextMesh]_vars

\* --------------------------------------------------------- mesh loader claims
\* The position in faces of the j-th face that has three indices.
NthTriangle(faces, j) ==
    LET tri == {k \in DOMAIN faces : Len(faces[k]) = 3}
    IN CHOOSE k \in tri : Cardinality({m \in tri : m < k}) = j - 1

\* C9: one mesh per sub-mesh; its index buffer holds exactly the faces with
\* three indices, in their order, and its vertex buffer every vertex.
C9_OnlyTrianglesKept ==
    meshes # Pending =>
      /\ Len(meshes.val) = Len(scene)
      /\ \A i \in DOMAIN scene :
           LET in == scene[i]
               out == meshes.val[i]
           IN /\ Len(out.coords) = Len(in.vertices)
              /\ \A k \in DOMAIN in.vertices :
                   out.coords[k] = <<in.vertices[k].x, in.vertices[k].y, in.vertices[k].z>>
              /\ Len(out.faces) = Cardinality({k \in DOMAIN in.faces : Len(in.faces[k]) = 3})
              /\ \A j \in DOMAIN out.faces :
                   out.faces[j] = in.faces[NthTriangle(in.faces, j)]

\* C9's case: a sub-mesh with faces of sizes 3, 4, 3 gives two triangles, in
\* order, beside a second sub-mesh.
C9_Witness ==
    /\ meshes # Pending
    /\ Len(scene) = 2
    /\ scene[1].faces = <<<<0, 1, 2>>, <<0, 1, 2, 3>>, <<2, 1, 0>>>>
    /\ Len(scene[1].vertices) = 4
    /\ meshes.val[1].faces = <<<<0, 1, 2>>, <<2, 1, 0>>>>
    /\ Len(meshes.val) = 2

====
